---- MODULE Spec2Model ----
(***************************************************************************)
(* State-machine model of FourierDrawingApp (src/fft_drawing_app.py):     *)
(* the pointer handlers _start_draw/_draw/_end_draw, clear and            *)
(* compute_fft, together with the library calls they make on the backing  *)
(* image (PIL ImageDraw.line) and on the array (numpy fft2, fftshift,     *)
(* abs, log1p).                                                           *)
(*                                                                        *)
(* Numbers.  Raster samples are integers 0..255.  A normalized sample is  *)
(* the rational num/den.  A DFT coefficient is kept exactly as a formal   *)
(* sum of twiddle powers: z[k] is the (integer, in units of 1/255)        *)
(* coefficient of w^k, w = exp(-2*pi*i/L), L = lcm(H, W).                 *)
(***************************************************************************)
EXTENDS Integers, Sequences, FiniteSets, TLC

VARIABLES size, image, draw, last_pos, canvas, plot, op, ev, pre

vars == <<size, image, draw, last_pos, canvas, plot, op, ev, pre>>

(* ---- bounds of the model ---- *)
MaxSize == 3        \* rasters of size 1..MaxSize
MaxItems == 2       \* at most this many line items on the canvas
Margin == 3         \* how far outside the raster pointer events may fall
MaxDim == 3         \* pure-function check: grids of 1..MaxDim rows/columns
MaxInk == 2         \* pure-function check: at most this many ink samples

(* ---- program constants ---- *)
White == 255
Ink == 0
LineWidth == 4
FullScale == 255

None == <<>>

Sign(n) == IF n < 0 THEN -1 ELSE IF n > 0 THEN 1 ELSE 0

(* ---------------------------------------------------------------------- *)
(* Image.new("L", (w, h), color): a fresh h x w raster, px[row][col].     *)
(* ---------------------------------------------------------------------- *)
\* variant: the color argument is dropped and the library default 0 is used
ImageNewDefault(w, h, color) == [r \in 0..(h - 1) |-> [c \in 0..(w - 1) |-> 0]]

ImageNew(w, h, color) == [r \in 0..(h - 1) |-> [c \in 0..(w - 1) |-> color]]

Height(g) == Cardinality(DOMAIN g)
Width(g) == Cardinality(DOMAIN g[0])

(* ---------------------------------------------------------------------- *)
(* ImageDraw.line([p0, p1], fill, width) for width > 1: a single point    *)
(* when p0 = p1, otherwise the filled quadrilateral whose corners are     *)
(* the endpoints displaced across the line by the rounded half width.     *)
(* RoundUp/RoundDown are sign(f)*floor(|f|+1/2) and sign(f)*ceil(|f|-1/2) *)
(* of f = ((width-1)/2) * d / hypot(dx,dy), computed on integers.         *)
(* ---------------------------------------------------------------------- *)
RoundUp(d, h2, w) ==
    LET ks == {k \in 0..w : k = 0 \/ (2*k - 1) * (2*k - 1) * h2 <= (w - 1) * (w - 1) * d * d}
    IN Sign(d) * (CHOOSE k \in ks : \A j \in ks : j <= k)

RoundDown(d, h2, w) ==
    LET ks == {k \in 0..w : (2*k + 1) * (2*k + 1) * h2 >= (w - 1) * (w - 1) * d * d}
    IN Sign(d) * (CHOOSE k \in ks : \A j \in ks : k <= j)

Vertices(p0, p1, w) ==
    LET dx == p1[1] - p0[1]
        dy == p1[2] - p0[2]
        h2 == dx * dx + dy * dy
        dxmin == RoundUp(dy, h2, w)
        dxmax == RoundDown(dy, h2, w)
        dymin == RoundUp(dx, h2, w)
        dymax == RoundDown(dx, h2, w)
    IN << <<p0[1] - dxmin, p0[2] + dymax>>,
          <<p1[1] - dxmin, p1[2] + dymax>>,
          <<p1[1] + dxmax, p1[2] - dymin>>,
          <<p0[1] + dxmax, p0[2] - dymin>> >>

Cross(a, b, x, y) == (b[1] - a[1]) * (y - a[2]) - (b[2] - a[2]) * (x - a[1])

InPolygon(v, x, y) ==
    LET cs == {Cross(v[i], v[(i % 4) + 1], x, y) : i \in 1..4}
    IN (\A k \in cs : k >= 0) \/ (\A k \in cs : k <= 0)

Covered(p0, p1, w, x, y) ==
    IF p0 = p1 THEN x = p0[1] /\ y = p0[2]
    ELSE InPolygon(Vertices(p0, p1, w), x, y)

\* variant: a segment with an endpoint outside the raster is ignored
DrawLineOrIgnore(px, p0, p1, fill, w) ==
    LET inside(p) == p[2] \in DOMAIN px /\ p[1] \in DOMAIN px[0]
    IN [r \in DOMAIN px |-> [c \in DOMAIN px[r] |->
          IF inside(p0) /\ inside(p1) /\ Covered(p0, p1, w, c, r) THEN fill
          ELSE px[r][c]]]

(* The library writes only the samples that exist: positions outside the *)
(* raster are clipped.                                                    *)
DrawLine(px, p0, p1, fill, w) ==
    [r \in DOMAIN px |-> [c \in DOMAIN px[r] |->
        IF Covered(p0, p1, w, c, r) THEN fill ELSE px[r][c]]]

(* ---------------------------------------------------------------------- *)
(* State.                                                                 *)
(*  image    self.image: id names the object, px its samples, lines the   *)
(*           line() calls the object has received (history)               *)
(*  draw     self.draw: the id of the image the ImageDraw is bound to     *)
(*  last_pos self.last_pos: None or <<x, y>>                              *)
(*  canvas   the items of self.canvas, oldest first                       *)
(*  plot     <<>> or <<the arrays of the last compute_fft call>>          *)
(*  op, ev   the handler that ran last and its event position (history)   *)
(*  pre      last_pos and the number of lines drawn, before it ran         *)
(* ---------------------------------------------------------------------- *)
Segment(p0, p1) == [from |-> p0, to |-> p1, width |-> LineWidth]

\* the pointer positions tried: the raster's corner and a point to its left,
\* outside the raster; the segments between them are points or horizontal,
\* for which the quadrilateral is a block of LineWidth rows
EventPoints(n) == { <<0, 0>>, <<0 - Margin, 0>> }

Snapshot == [last_pos |-> last_pos, lines |-> Len(image.lines)]

\* variant: the ImageDraw handle is not rebuilt for the new image
_create_drawing_buffer_keep_draw(n, oldid) ==
    /\ image' = [id |-> 1 - oldid, px |-> ImageNew(n, n, White), lines |-> <<>>]
    /\ draw' = draw
    /\ last_pos' = None

_create_drawing_buffer(n, oldid) ==
    /\ image' = [id |-> 1 - oldid, px |-> ImageNew(n, n, White), lines |-> <<>>]
    /\ draw' = 1 - oldid
    /\ last_pos' = None

Init ==
    /\ size \in 1..MaxSize
    /\ image = [id |-> 0, px |-> ImageNew(size, size, White), lines |-> <<>>]
    /\ draw = 0
    /\ last_pos = None
    /\ canvas = <<>>
    /\ plot = <<>>
    /\ op = "init"
    /\ ev = None
    /\ pre = [last_pos |-> None, lines |-> 0]

_start_draw(p) ==
    /\ last_pos' = p
    /\ op' = "_start_draw"
    /\ ev' = p
    /\ pre' = Snapshot
    /\ UNCHANGED <<size, image, draw, canvas, plot>>

_draw(p) ==
    /\ IF last_pos = None
       THEN /\ last_pos' = p
            /\ UNCHANGED <<image, canvas>>
       ELSE /\ Len(canvas) < MaxItems
            /\ canvas' = Append(canvas, Segment(last_pos, p))
            /\ image' = IF draw = image.id
                        THEN [image EXCEPT
                                !.px = DrawLine(image.px, last_pos, p, Ink, LineWidth),
                                !.lines = Append(image.lines, Segment(last_pos, p))]
                        ELSE image
            /\ last_pos' = p
    /\ op' = "_draw"
    /\ ev' = p
    /\ pre' = Snapshot
    /\ UNCHANGED <<size, draw, plot>>

\* variant: the release leaves last_pos as it is
_end_draw_keep_pos ==
    /\ last_pos' = last_pos
    /\ op' = "_end_draw"
    /\ ev' = None
    /\ pre' = Snapshot
    /\ UNCHANGED <<size, image, draw, canvas, plot>>

_end_draw ==
    /\ last_pos' = None
    /\ op' = "_end_draw"
    /\ ev' = None
    /\ pre' = Snapshot
    /\ UNCHANGED <<size, image, draw, canvas, plot>>

clear ==
    /\ canvas' = <<>>
    /\ _create_drawing_buffer(size, image.id)
    /\ op' = "clear"
    /\ ev' = None
    /\ pre' = Snapshot
    /\ UNCHANGED <<size, plot>>

(* ---------------------------------------------------------------------- *)
(* compute_fft, line by line.                                             *)
(* ---------------------------------------------------------------------- *)
\* variant: division by 256
Scale256(v) == [num |-> v, den |-> FullScale + 1]

\* np.asarray(self.image, dtype=float) / 255.0, one sample
Scale(v) == [num |-> v, den |-> FullScale]

\* variant: the inversion is left out
InvertOmitted(q) == q

\* 1.0 - array, one sample
Invert(q) == [num |-> q.den - q.num, den |-> q.den]

Normalize(px) == [r \in DOMAIN px |-> [c \in DOMAIN px[r] |-> Invert(Scale(px[r][c]))]]

\* least common multiple of the two dimensions: every twiddle factor
\* exp(-2 pi i (u r / H + v c / W)) is a power of w = exp(-2 pi i / L)
Period(H, W) == CHOOSE m \in 1..(H * W) :
    /\ m % H = 0 /\ m % W = 0
    /\ \A j \in 1..(m - 1) : ~(j % H = 0 /\ j % W = 0)

\* sum of a[r][c].num over the cells i..H*W-1 (row-major) whose twiddle
\* exponent L * (u r / H + v c / W), reduced mod L, is k
RECURSIVE TwiddleSum(_, _, _, _, _, _, _, _)
TwiddleSum(a, H, W, L, u, v, k, i) ==
    IF i >= H * W THEN 0
    ELSE (IF (u * (i \div W) * (L \div H) + v * (i % W) * (L \div W)) % L = k
          THEN a[i \div W][i % W].num ELSE 0)
         + TwiddleSum(a, H, W, L, u, v, k, i + 1)

\* np.fft.fft2: F[u][v] = sum_{r,c} a[r][c] * exp(-2 pi i (u r / H + v c / W))
FFT2(a) ==
    LET H == Height(a)
        W == Width(a)
        L == Period(H, W)
    IN [u \in 0..(H - 1) |-> [v \in 0..(W - 1) |->
          [k \in 0..(L - 1) |-> TwiddleSum(a, H, W, L, u, v, k, 0)]]]

\* variant: the roll is applied to the rows only
RollRows(x, sr, sc) ==
    LET H == Height(x)
    IN [r \in DOMAIN x |-> [c \in DOMAIN x[r] |-> x[(r - sr) % H][c]]]

\* np.roll along both axes: the element at index i moves to (i + shift) mod n
Roll(x, sr, sc) ==
    LET H == Height(x)
        W == Width(x)
    IN [r \in DOMAIN x |-> [c \in DOMAIN x[r] |-> x[(r - sr) % H][(c - sc) % W]]]

\* variant: ifftshift, shift = -(dim // 2) on every axis
IFFTShift(x) == Roll(x, 0 - (Height(x) \div 2), 0 - (Width(x) \div 2))

\* np.fft.fftshift: shift = dim // 2 on every axis
FFTShift(x) == Roll(x, Height(x) \div 2, Width(x) \div 2)

RECURSIVE AutoCorr(_, _, _)
AutoCorr(z, d, j) ==
    LET L == Cardinality(DOMAIN z)
    IN IF j >= L THEN 0 ELSE z[j] * z[(j + d) % L] + AutoCorr(z, d, j + 1)

\* np.abs of one coefficient: the modulus m >= 0, kept exactly by its square
\* m^2 = sum_d sq[d] * cos(2 pi d / L)
Abs(z) == [sq |-> [d \in DOMAIN z |-> AutoCorr(z, d, 0)]]

\* np.log1p of one modulus: ln(1 + m), kept as the term log1p(m); it is 0
\* exactly when m is 0
Log1p(m) == [log1p |-> m]

Zero(L) == [k \in 0..(L - 1) |-> 0]
RealZero(L) == Log1p(Abs(Zero(L)))

\* np.abs and np.log1p over a whole array
Magnitude(g) == [r \in DOMAIN g |-> [c \in DOMAIN g[r] |-> Abs(g[r][c])]]

LogCompress(g) == [r \in DOMAIN g |-> [c \in DOMAIN g[r] |-> Log1p(g[r][c])]]

\* variant: the inversion is written back into the image
compute_fft_in_place ==
    /\ LET array == Normalize(image.px)
           spectrum == FFTShift(FFT2(array))
           magnitude == Magnitude(spectrum)
           log_magnitude == LogCompress(magnitude)
       IN /\ plot' = << [array |-> array, spectrum |-> spectrum,
                         log_magnitude |-> log_magnitude] >>
          /\ image' = [image EXCEPT !.px =
                [r \in DOMAIN image.px |-> [c \in DOMAIN image.px[r] |->
                    White - image.px[r][c]]]]
    /\ op' = "compute_fft"
    /\ ev' = None
    /\ pre' = Snapshot
    /\ UNCHANGED <<size, draw, last_pos, canvas>>

compute_fft ==
    /\ LET array == Normalize(image.px)
           spectrum == FFTShift(FFT2(array))
           magnitude == Magnitude(spectrum)
           log_magnitude == LogCompress(magnitude)
       IN plot' = << [array |-> array, spectrum |-> spectrum,
                      log_magnitude |-> log_magnitude] >>
    /\ op' = "compute_fft"
    /\ ev' = None
    /\ pre' = Snapshot
    /\ UNCHANGED <<size, image, draw, last_pos, canvas>>


StartDraw == \E p \in EventPoints(size) : _start_draw(p)
Draw == \E p \in EventPoints(size) : _draw(p)

Next == StartDraw \/ Draw \/ _end_draw \/ clear \/ compute_fft

Spec == Init /\ [][Next]_vars

(* ---------------------------------------------------------------------- *)
(* compute_fft as a function of the raster: the raster is drawn from a    *)
(* bounded family of H x W grids (compute_fft takes the shape from the    *)
(* image it reads): every grid with at most MaxInk ink samples on white,  *)
(* and every grid whose last sample has any value 0..255, on white.       *)
(* ---------------------------------------------------------------------- *)
RastersOf(H, W) ==
    LET cells == (0..(H - 1)) \X (0..(W - 1))
    IN { [r \in 0..(H - 1) |-> [c \in 0..(W - 1) |->
            IF <<r, c>> \in S THEN Ink ELSE White]] :
                S \in {T \in SUBSET cells : Cardinality(T) <= MaxInk} }
       \cup
       { [r \in 0..(H - 1) |-> [c \in 0..(W - 1) |->
            IF <<r, c>> = <<H - 1, W - 1>> THEN v ELSE White]] : v \in 0..White }

InitFn ==
    /\ \E H \in 1..MaxDim, W \in 1..MaxDim :
          /\ size = H
          /\ image \in { [id |-> 0, px |-> g, lines |-> <<>>] : g \in RastersOf(H, W) }
    /\ draw = 0
    /\ last_pos = None
    /\ canvas = <<>>
    /\ plot = <<>>
    /\ op = "init"
    /\ ev = None
    /\ pre = [last_pos |-> None, lines |-> 0]

NextFn == compute_fft

SpecFn == InitFn /\ [][NextFn]_vars

(* ====================================================================== *)
(* Properties                                                             *)
(* ====================================================================== *)
IsGrid(g, h, w) ==
    /\ DOMAIN g = 0..(h - 1)
    /\ \A r \in DOMAIN g : DOMAIN g[r] = 0..(w - 1)

AllSamples(g, v) == \A r \in DOMAIN g : \A c \in DOMAIN g[r] : g[r][c] = v

SomeSample(g, v) == \E r \in DOMAIN g : \E c \in DOMAIN g[r] : g[r][c] = v

InRange(p, n) == p[1] \in 0..(n - 1) /\ p[2] \in 0..(n - 1)

Computed == op = "compute_fft" /\ plot # <<>>

RECURSIVE SumNums(_, _)
SumNums(a, i) ==
    IF i >= Height(a) * Width(a) THEN 0
    ELSE a[i \div Width(a)][i % Width(a)].num + SumNums(a, i + 1)

Scalar(s, L) == [k \in 0..(L - 1) |-> IF k = 0 THEN s ELSE 0]

PointerOps == {"_start_draw", "_draw", "_end_draw"}

(* C1: whenever clear() has just run, after whatever presses, motions,    *)
(* releases and clears came before it (a clear in the middle of a stroke  *)
(* included), the raster is size x size and every sample is 255.          *)
C1_ClearRestoresWhite ==
    op = "clear" => IsGrid(image.px, size, size) /\ AllSamples(image.px, 255)

\* clear has run in the middle of a stroke, on a raster that had received
\* lines and had shown ink to an earlier compute
C1_Witness ==
    /\ op = "clear"
    /\ pre.last_pos # None
    /\ pre.lines > 0
    /\ plot # <<>>
    /\ \E r \in DOMAIN plot[1].array : \E c \in DOMAIN plot[1].array[r] :
          plot[1].array[r][c].num > 0
    /\ AllSamples(image.px, 255)

(* C2: after compute_fft, each normalized sample equals 1 - v/255 for the *)
(* raster sample v at the same position and lies in [0,1]; a sample 255   *)
(* gives 0 and an ink sample 0 gives exactly 1.                           *)
C2_NormalizedIsInverse ==
    Computed =>
        /\ IsGrid(plot[1].array, Height(image.px), Width(image.px))
        /\ \A r \in DOMAIN image.px : \A c \in DOMAIN image.px[r] :
             LET v == image.px[r][c]
                 a == plot[1].array[r][c]
             IN /\ a.den > 0
                /\ a.num * 255 = (255 - v) * a.den
                /\ 0 <= a.num /\ a.num <= a.den
                /\ (v = 255 => a.num = 0)
                /\ (v = 0 => a.num = a.den)

\* compute_fft has run on a raster holding a grey sample beside white ones
C2_Witness ==
    /\ Computed
    /\ SomeSample(image.px, 100)
    /\ SomeSample(image.px, 255)
    /\ \E r \in DOMAIN plot[1].array : \E c \in DOMAIN plot[1].array[r] :
          plot[1].array[r][c].num = 155

(* C3: the (0,0) coefficient of the unshifted transform of the normalized *)
(* array is the sum of all normalized samples, and after the centering    *)
(* shift that value sits at index (H div 2, W div 2) of the spectrum, for *)
(* even and for odd dimensions.                                           *)
C3_DCTermAtCentre ==
    Computed =>
        LET a == plot[1].array
            H == Height(a)
            W == Width(a)
            dc == Scalar(SumNums(a, 0), Period(H, W))
        IN /\ FFT2(a)[0][0] = dc
           /\ plot[1].spectrum[H \div 2][W \div 2] = dc

\* compute_fft has run on an odd-sized square raster with ink on it
C3_Witness ==
    /\ Computed
    /\ Height(image.px) = 3 /\ Width(image.px) = 3
    /\ image.px[0][0] = 0 /\ image.px[2][1] = 0
    /\ plot[1].spectrum[1][1] = Scalar(2 * 255, 3)

(* C4: the centering step is a pure permutation: the coefficient at (r,c) *)
(* of the unshifted transform appears at ((r + H div 2) mod H,            *)
(* (c + W div 2) mod W) of the spectrum, floor division for odd           *)
(* dimensions; the spectrum has the shape of the transform and the index  *)
(* map hits every position once, so nothing is changed, duplicated or     *)
(* lost.                                                                  *)
C4_ShiftIsPermutation ==
    Computed =>
        LET f == FFT2(plot[1].array)
            H == Height(f)
            W == Width(f)
            s == plot[1].spectrum
            dest(r, c) == <<(r + H \div 2) % H, (c + W \div 2) % W>>
        IN /\ IsGrid(s, H, W)
           /\ \A r \in 0..(H - 1) : \A c \in 0..(W - 1) :
                s[dest(r, c)[1]][dest(r, c)[2]] = f[r][c]
           /\ {dest(r, c) : r \in 0..(H - 1), c \in 0..(W - 1)}
                = (0..(H - 1)) \X (0..(W - 1))

\* compute_fft has run on a 3 x 2 raster with one ink sample off the origin,
\* so that the coefficients differ from one another
C4_Witness ==
    /\ Computed
    /\ Height(image.px) = 3 /\ Width(image.px) = 2
    /\ image.px[1][1] = 0
    /\ plot[1].spectrum[0][0] # plot[1].spectrum[1][1]
    /\ plot[1].spectrum[0][0] # plot[1].spectrum[2][0]

(* C5: when compute_fft runs on a raster on which nothing has been drawn  *)
(* since construction or the last clear (every sample 255), the           *)
(* normalized array is all zeros and the log-magnitude array is all       *)
(* zeros, both size x size like the raster.                               *)
C5_BlankGivesZeros ==
    (Computed /\ AllSamples(image.px, 255)) =>
        /\ IsGrid(image.px, size, size)
        /\ IsGrid(plot[1].array, size, size)
        /\ IsGrid(plot[1].log_magnitude, size, size)
        /\ \A r \in 0..(size - 1) : \A c \in 0..(size - 1) :
             /\ plot[1].array[r][c].num = 0
             /\ plot[1].log_magnitude[r][c] = RealZero(size)

\* compute_fft has run on a raster made blank again by a clear, the
\* previous raster having received lines
C5_Witness ==
    /\ Computed
    /\ image.id = 1
    /\ image.lines = <<>>
    /\ size = 2
    /\ AllSamples(image.px, 255)
    /\ plot[1].log_magnitude[1][1] = RealZero(2)

(* C6: whenever compute_fft runs, no stroke is in progress: last_pos is   *)
(* None at the moment the raster is read.                                 *)
C6_NoComputeMidStroke ==
    op = "compute_fft" => last_pos = None

(* C7: compute_fft leaves the raster, the draw handle, last_pos and the   *)
(* canvas unchanged, and the arrays it produced are not altered by any    *)
(* press, motion, release or clear executed afterwards.                   *)
C7_ComputeWorksOnCopy ==
    [][ /\ op' = "compute_fft" =>
              /\ image' = image
              /\ draw' = draw
              /\ last_pos' = last_pos
              /\ canvas' = canvas
        /\ op' \in PointerOps \cup {"clear"} => plot' = plot ]_vars

\* a motion has drawn ink on a sample that the arrays of an earlier compute
\* still show as blank
C7_Witness ==
    /\ op = "_draw"
    /\ plot # <<>>
    /\ \E r \in DOMAIN image.px : \E c \in DOMAIN image.px[r] :
          image.px[r][c] = 0 /\ plot[1].array[r][c].num = 0

(* C8: a motion that draws a segment with an endpoint outside             *)
(* 0..size-1 completes: the raster stays size x size, exactly the         *)
(* in-bounds samples covered by the segment become 0, every other sample  *)
(* is unchanged, and last_pos becomes the event position.                 *)
C8_OutOfRangeIsClipped ==
    [][ (/\ op' = "_draw"
         /\ last_pos # None
         /\ ~(InRange(last_pos, size) /\ InRange(ev', size))) =>
            /\ IsGrid(image'.px, size, size)
            /\ \A r \in 0..(size - 1) : \A c \in 0..(size - 1) :
                 image'.px[r][c] =
                    IF Covered(last_pos, ev', LineWidth, c, r) THEN 0
                    ELSE image.px[r][c]
            /\ last_pos' = ev' ]_vars

\* a segment from outside the raster to its corner has been drawn: it has
\* inked the samples it covers and left the others white
C8_Witness ==
    /\ op = "_draw"
    /\ size = 2
    /\ canvas = << Segment(<<0 - Margin, 0>>, <<0, 0>>) >>
    /\ last_pos = <<0, 0>>
    /\ image.px[0][0] = 0
    /\ image.px[0][1] = 255

(* C9: the list of segments drawn into the current raster since the last  *)
(* clear (or construction) is exactly the list of line items on the       *)
(* canvas, same order, same endpoints, width 4; clear empties both; the   *)
(* draw handle targets the current raster object.                         *)
C9_RasterMirrorsCanvas ==
    /\ image.lines = canvas
    /\ \A i \in 1..Len(canvas) : canvas[i].width = 4
    /\ draw = image.id
    /\ (op = "clear" => canvas = <<>> /\ image.lines = <<>>)

\* two different segments have been drawn after a clear replaced the raster
C9_Witness ==
    /\ image.id = 1
    /\ Len(canvas) = 2
    /\ canvas[1] # canvas[2]
    /\ SomeSample(image.px, 0)

(* C10: a press sets last_pos to the event position and a release sets it *)
(* to None, neither changing the raster; a motion while last_pos is None  *)
(* draws nothing and records the position; a motion while last_pos is set *)
(* draws exactly one segment from last_pos to the event position and then *)
(* sets last_pos to it.  last_pos is wiped by every release and clear and *)
(* a segment only ever starts at last_pos, so no segment joins points of  *)
(* two strokes or a point recorded before a clear.                        *)
C10_StrokeStateMachine ==
    [][ /\ op' = "_start_draw" =>
              last_pos' = ev' /\ ev' # None /\ image' = image /\ canvas' = canvas
        /\ op' = "_end_draw" =>
              last_pos' = None /\ image' = image /\ canvas' = canvas
        /\ op' = "clear" => last_pos' = None
        /\ (op' = "_draw" /\ last_pos = None) =>
              last_pos' = ev' /\ ev' # None /\ image' = image /\ canvas' = canvas
        /\ (op' = "_draw" /\ last_pos # None) =>
              /\ canvas' = Append(canvas, Segment(last_pos, ev'))
              /\ image'.lines = Append(image.lines, Segment(last_pos, ev'))
              /\ image'.px = DrawLine(image.px, last_pos, ev', 0, 4)
              /\ last_pos' = ev'
        /\ op' = "compute_fft" => last_pos' = last_pos
        /\ Len(canvas') > Len(canvas) => op' = "_draw" /\ last_pos # None ]_vars

\* the first motion after a clear: nothing was drawn, the position recorded
C10_Witness ==
    /\ op = "_draw"
    /\ pre.last_pos = None
    /\ image.id = 1
    /\ canvas = <<>>
    /\ AllSamples(image.px, 255)
    /\ last_pos = ev /\ last_pos # None

====
